---- MODULE Spec2Model ----
(***************************************************************************)
(* CSVWeatherDataProvider (pcse/fileinput/csvweatherdataprovider.py).      *)
(*                                                                         *)
(* The model follows one source file and its cache artifact through a      *)
(* bounded number of constructions of the provider.  A construction is     *)
(* __init__: existence check, cache lookup, _read_meta, the header row,    *)
(* one step per data row of _read_observations, _write_cache_file.         *)
(*                                                                         *)
(* Numbers are fixed-point integers in thousandths: the cell text "8.5"    *)
(* is Num(8500), the float 24.0 is 24000.  A date text is Num(d) with d a  *)
(* day number; strptime accepts it iff d is a calendar day of the model.   *)
(***************************************************************************)
EXTENDS Integers, Sequences, FiniteSets, TLC

\* ---------------------------------------------------------------- bounds
MaxRows == 2        \* data rows after the header row
MaxDay == 2         \* calendar days a DAY cell can name
MaxClock == 2       \* file-system time stamps 0..MaxClock
MaxConstr == 2      \* constructions of the provider on the same source

Days == 1..MaxDay

\* ------------------------------------------------------------ cell texts
Num(n) == [k |-> "num", v |-> n]       \* a decimal text
NanText == [k |-> "nan", v |-> 0]      \* the text 'nan'
BadText == [k |-> "bad", v |-> 0]      \* non-numeric text, e.g. 'notadate'

\* float values: a number, or not-a-number
NaN == [k |-> "nan", v |-> 0]
ValueErr == [k |-> "ValueError", v |-> 0]

\* IEEE-754 ==: NaN equals nothing, itself included; a date equals no float
FloatEq(a, b) == a.k = "num" /\ b.k = "num" /\ a.v = b.v

\* ------------------------------------------------------------ translator
translator ==
  [DAY |-> {"w_date", "DAY"},
   IRRAD |-> {"srad", "RADIATION", "IRRAD"},
   TMIN |-> {"tmin", "TEMPERATURE_MIN", "TMIN"},
   TMAX |-> {"tmax", "TEMPERATURE_MAX", "TMAX"},
   VAP |-> {"vprs_tx", "VAPOURPRESSURE", "VAP"},
   WIND |-> {"wind", "WINDSPEED", "WIND"},
   RAIN |-> {"rain", "PRECIPITATION", "RAIN"},
   SNOWDEPTH |-> {"snowdepth", "SNOWDEPTH"}]

Canonical == DOMAIN translator

\* ''.join(key for key, value in translator.items() if item in value):
\* the alias lists are disjoint, so the join is one key or the empty string
TranslateLabel(item) ==
  LET ks == {key \in Canonical : item \in translator[key]}
  IN IF ks = {} THEN "" ELSE CHOOSE key \in ks : TRUE

TranslateHeader(raw) == [i \in 1..Len(raw) |-> TranslateLabel(raw[i])]

\* ------------------------------------------------------ conversions
\* a float() that reads any text it cannot parse as 0.0
ToFloat_Lenient(x) ==
  IF x.k = "nan" THEN NaN ELSE [k |-> "num", v |-> x.v]

\* float(x): a number, nan for the text 'nan', ValueError otherwise
ToFloat(x) ==
  IF x.k = "num" THEN [k |-> "num", v |-> x.v]
  ELSE IF x.k = "nan" THEN NaN
  ELSE ValueErr

NoConversion(x) == ToFloat(x)

kJ_to_J(x) ==
  LET f == ToFloat(x)
  IN IF f.k = "num" THEN [k |-> "num", v |-> f.v * 1000] ELSE f

mm_to_cm(x) ==
  LET f == ToFloat(x)
  IN IF f.k = "num" THEN [k |-> "num", v |-> f.v \div 10] ELSE f

\* strptime(x, dateformat).date(): ValueError unless x names a calendar day
csvdate_to_date(x) ==
  IF x.k = "num" /\ x.v \in Days THEN [k |-> "date", v |-> x.v] ELSE ValueErr

obs_conversions(label, x) ==
  CASE label = "TMAX" -> NoConversion(x)
    [] label = "TMIN" -> NoConversion(x)
    [] label = "IRRAD" -> kJ_to_J(x)
    [] label = "DAY" -> csvdate_to_date(x)
    [] label = "VAP" -> NoConversion(x)
    [] label = "WIND" -> NoConversion(x)
    [] label = "RAIN" -> mm_to_cm(x)
    [] label = "SNOWDEPTH" -> NoConversion(x)

\* ------------------------------------------------------ dict(zip(header, row))
Min(a, b) == IF a < b THEN a ELSE b

ZipLen(hdr, r) == Min(Len(hdr), Len(r))

\* the keys of d after `del d['']`
DictKeys(hdr, r) == {hdr[i] : i \in 1..ZipLen(hdr, r)} \ {""}

\* a later column with the same key overwrites an earlier one
DictOf(hdr, r) ==
  [key \in DictKeys(hdr, r) |->
     r[CHOOSE i \in 1..ZipLen(hdr, r) :
         /\ hdr[i] = key
         /\ \A j \in 1..ZipLen(hdr, r) : hdr[j] = key => j <= i]]

\* d.keys(): insertion order, the order of each key's first column
RECURSIVE KeyOrder(_, _, _)
KeyOrder(hdr, n, i) ==
  IF i > n THEN <<>>
  ELSE LET rest == KeyOrder(hdr, n, i + 1)
           first == hdr[i] # "" /\ \A j \in 1..(i - 1) : hdr[j] # hdr[i]
       IN IF first THEN <<hdr[i]>> \o rest ELSE rest

\* the conversion loop, lines 142-150: the first failing label ends it
RECURSIVE ConvertLoop(_, _, _)
ConvertLoop(d, ks, i) ==
  IF i > Len(ks) THEN [exc |-> "none", d |-> d]
  ELSE LET label == ks[i]
           val == obs_conversions(label, d[label])
       IN IF val.k = "ValueError" THEN [exc |-> "ValueError", d |-> d]
          ELSE IF FloatEq(val, NaN) /\ label # "SNOWDEPTH"
               THEN [exc |-> "NoDataError", d |-> d]
          ELSE ConvertLoop([d EXCEPT ![label] = val], ks, i + 1)

\* ------------------------------------------------ external collaborators
\* pcse.util.angstrom, pcse.util.reference_ET and WeatherDataContainer are
\* called, not defined, by this file: each call returns or raises, and the
\* outcome is an input of the row step.
ExtOutcomes == {"ok", "ValueError", "Error"}
WdcOutcomes == {"ok", "Error"}

\* angstrom(day, latitude, ssd, cA, cB): a radiation flux derived from ssd
angstrom(day, ssd) == [k |-> "angstrom", v |-> ssd.v]

\* e0/10., es0/10., et0/10.
EtValue == [k |-> "et", v |-> 0]

WithET(d) ==
  [key \in DOMAIN d \cup {"E0", "ES0", "ET0"} |->
     IF key \in {"E0", "ES0", "ET0"} THEN EtValue ELSE d[key]]

\* ------------------------------------------------ the try body of one row
\* 0 < d['IRRAD'] < 24 on floats: false for NaN
InSunshineRange(x) == x.k = "num" /\ 0 < x.v /\ x.v < 24000

Outcome(exc, d, ang, et, wdc) ==
  [exc |-> exc, d |-> [key \in DOMAIN d |-> d[key]], ang |-> ang, et |-> et,
   wdc |-> wdc]

\* lines 156-169: reference_ET, the container, the store key
DeriveAndBuild(d, ang, eOut, wOut) ==
  IF eOut # "ok" THEN Outcome(eOut, d, ang, eOut, "none")
  ELSE IF wOut # "ok" THEN Outcome(wOut, WithET(d), ang, eOut, wOut)
  ELSE IF "DAY" \notin DOMAIN d THEN Outcome("KeyError", WithET(d), ang, eOut, wOut)
  ELSE Outcome("none", WithET(d), ang, eOut, wOut)

\* lines 152-154: the sunshine-duration correction
SunshineStep(d, hs, aOut, eOut, wOut) ==
  IF ~hs THEN DeriveAndBuild(d, "none", eOut, wOut)
  ELSE IF "IRRAD" \notin DOMAIN d THEN Outcome("KeyError", d, "none", "none", "none")
  ELSE IF ~InSunshineRange(d["IRRAD"]) THEN DeriveAndBuild(d, "none", eOut, wOut)
  ELSE IF "DAY" \notin DOMAIN d THEN Outcome("KeyError", d, "none", "none", "none")
  ELSE IF aOut # "ok" THEN Outcome(aOut, d, aOut, "none", "none")
  ELSE DeriveAndBuild([d EXCEPT !["IRRAD"] = angstrom(d["DAY"], d["IRRAD"])],
                      "ok", eOut, wOut)

\* lines 152-169, after the conversion loop ended with c
AfterConvert(c, hs, aOut, eOut, wOut) ==
  IF c.exc # "none" THEN Outcome(c.exc, c.d, "none", "none", "none")
  ELSE SunshineStep(c.d, hs, aOut, eOut, wOut)

\* lines 137-169 for a data row
TryRow(hdr, r, hs, aOut, eOut, wOut) ==
  AfterConvert(ConvertLoop(DictOf(hdr, r), KeyOrder(hdr, ZipLen(hdr, r), 1), 1),
               hs, aOut, eOut, wOut)

\* TryRow over every outcome of the external calls
TryOutcomes(hdr, r, hs, aOuts, eOuts, wOuts) ==
  UNION { {AfterConvert(c, hs, aOut, eOut, wOut) :
             aOut \in aOuts, eOut \in eOuts, wOut \in wOuts} :
          c \in {ConvertLoop(DictOf(hdr, r), KeyOrder(hdr, ZipLen(hdr, r), 1), 1)} }

\* the row loop without its except clauses
ExceptClause_NoCatch(exc) ==
  IF exc = "none" THEN [res |-> "stored", raised |-> "none", warn |-> 0]
  ELSE [res |-> "raised", raised |-> exc, warn |-> 0]

\* lines 171-178: what the except clauses make of an exception of the try
\* body.  The NoDataError handler formats its message with %S, which is a
\* ValueError raised inside the handler, so it leaves the loop.
ExceptClause(exc) ==
  CASE exc = "none" -> [res |-> "stored", raised |-> "none", warn |-> 0]
    [] exc = "ValueError" -> [res |-> "skipped", raised |-> "none", warn |-> 1]
    [] exc = "NoDataError" -> [res |-> "raised", raised |-> "ValueError", warn |-> 0]
    [] OTHER -> [res |-> "raised", raised |-> exc, warn |-> 0]

\* WeatherDataProvider._store_WeatherDataContainer: one record per date
StoreWDC(st, wdc, day) ==
  [x \in DOMAIN st \cup {day} |-> IF x = day THEN wdc ELSE st[x]]

EmptyStore == [x \in {} |-> EtValue]

\* ------------------------------------------------------------- the inputs
\* header rows as written in the file: the canonical names; aliases, no
\* SNOWDEPTH column and a column that no alias list knows
FullHeader == <<"DAY", "IRRAD", "TMIN", "TMAX", "VAP", "WIND", "RAIN", "SNOWDEPTH">>
AliasHeader == <<"w_date", "srad", "tmin", "tmax", "vprs_tx", "wind", "rain", "station">>
RawHeaders == {FullHeader, AliasHeader}

\* IRRAD cell texts: 0.010, 0.024, 8.5, 25.0
IrradTexts == {10, 24, 8500, 25000}

GoodRow(day, irr) ==
  <<Num(day), Num(irr), Num(2000), Num(10000), Num(1000), Num(3000), Num(0), Num(50)>>

BaseRow == GoodRow(1, 25000)

\* the columns a defective cell is put in: DAY, IRRAD, TMIN, RAIN and
\* SNOWDEPTH of the full header, one for each conversion function
DefectColumns == {1, 2, 3, 7, 8}

\* complete rows; rows with one unparsable or one 'nan' cell; a row without
\* its last cell; an empty line
RowSet ==
  {GoodRow(day, irr) : day \in Days, irr \in IrradTexts}
  \cup {[BaseRow EXCEPT ![c] = BadText] : c \in DefectColumns}
  \cup {[BaseRow EXCEPT ![c] = NanText] : c \in DefectColumns}
  \cup {SubSeq(BaseRow, 1, 7), <<>>}

\* the inputs of the cache life cycle: two valid rows of different days and
\* a row that does not parse; externals that return or
\* raise an uncaught error
FewRows ==
  {GoodRow(1, 25000), GoodRow(MaxDay, 25000), [BaseRow EXCEPT ![3] = BadText]}
FewOutcomes == {"ok", "Error"}

\* the lines before the header row
MetaFiles ==
  { [sentinel |-> TRUE, lines |-> "ok", keys |-> "all", floats |-> "ok",
     angstromAB |-> "ok", HasSunshine |-> hs] : hs \in BOOLEAN }
  \cup { [sentinel |-> FALSE, lines |-> "ok", keys |-> "all", floats |-> "ok",
          angstromAB |-> "ok", HasSunshine |-> FALSE],
         [sentinel |-> TRUE, lines |-> "malformed", keys |-> "all", floats |-> "ok",
          angstromAB |-> "ok", HasSunshine |-> FALSE],
         [sentinel |-> TRUE, lines |-> "ok", keys |-> "missing", floats |-> "ok",
          angstromAB |-> "ok", HasSunshine |-> FALSE],
         [sentinel |-> TRUE, lines |-> "ok", keys |-> "all", floats |-> "bad",
          angstromAB |-> "ok", HasSunshine |-> FALSE],
         [sentinel |-> TRUE, lines |-> "ok", keys |-> "all", floats |-> "ok",
          angstromAB |-> "rejected", HasSunshine |-> FALSE] }

\* _read_meta: exec of each line until the sentinel (RuntimeError after 30 s
\* of reading past the end), the look-ups in locals(), float(), check_angstromAB
ReadMetaResult(m) ==
  IF m.lines = "malformed" THEN "SyntaxError"
  ELSE IF ~m.sentinel THEN "RuntimeError"
  ELSE IF m.keys = "missing" THEN "KeyError"
  ELSE IF m.floats = "bad" THEN "ValueError"
  ELSE IF m.angstromAB = "rejected" THEN "PCSEError"
  ELSE "ok"

\* _dump: written; not written; or opened (truncated) and not completed
DumpOutcomes == {"ok", "IOError", "IOErrorPartial"}
LoadOutcomes == {"ok", "Error"}

\* ------------------------------------------------------------------ state
VARIABLES
  pc,            \* "idle", "meta", "header", "rows", "done", "aborted"
  raised,        \* the exception that left __init__, or "none"
  path,          \* "none", "cache" (_load was called), "parse"
  meta,          \* the station attributes are set
  has_sunshine,  \* self.has_sunshine
  header,        \* the translated header row
  remaining,     \* data rows the reader has not yielded yet
  row,           \* the loop variable of _read_observations
  calls,         \* outcome of the external calls made for `row`
  res,           \* "stored", "skipped", "raised" for `row`, or "none"
  store,         \* self.store: date -> record
  warnings,      \* logger warnings of this construction
  writes,        \* _write_cache_file calls of this construction
  lastDump,      \* how _dump ended in this construction, or "none"
  nConstr,       \* constructions started
  srcExists, srcMtime,                  \* the source file
  cacheState, cacheMtime, cacheContent, \* the cache artifact
  clock,         \* file-system time
  touched,       \* the source was touched after the last cache write
  nRows, nErr, okDays, dupDay, badSeen  \* history of this construction

vars ==
  <<pc, raised, path, meta, has_sunshine, header, remaining, row, calls, res,
    store, warnings, writes, lastDump, nConstr, srcExists, srcMtime, cacheState,
    cacheMtime, cacheContent, clock, touched, nRows, nErr, okDays, dupDay,
    badSeen>>

fsVars == <<srcExists, srcMtime, cacheState, cacheMtime, cacheContent, touched>>
rowVars == <<header, remaining, row, calls, res, nRows, nErr, okDays, dupDay, badSeen>>

NoCalls == [ang |-> "none", et |-> "none", wdc |-> "none"]
NoContent == [store |-> EmptyStore, meta |-> FALSE, pending |-> 0]

Quiescent == pc \in {"idle", "done", "aborted"}

\* ------------------------------------------- what a row is, by its cells
Unparsable(label, cell) ==
  IF label = "DAY" THEN ~(cell.k = "num" /\ cell.v \in Days)
  ELSE cell.k \notin {"num", "nan"}

\* some cell under a known column does not parse
ConvFail(hdr, r) ==
  \E i \in 1..ZipLen(hdr, r) :
     /\ hdr[i] # ""
     /\ \A j \in (i + 1)..ZipLen(hdr, r) : hdr[j] # hdr[i]
     /\ Unparsable(hdr[i], r[i])

\* some external call made for the row raised ValueError
DerivedFail(c) == "ValueError" \in {c.ang, c.et, c.wdc}

Required == Canonical \ {"SNOWDEPTH"}

Init ==
  /\ pc = "idle" /\ raised = "none" /\ path = "none" /\ meta = FALSE
  /\ has_sunshine = FALSE /\ header = <<>> /\ remaining = 0 /\ row = <<>>
  /\ calls = NoCalls /\ res = "none" /\ store = EmptyStore /\ warnings = 0
  /\ writes = 0 /\ lastDump = "none" /\ nConstr = 0
  /\ srcExists \in BOOLEAN /\ srcMtime = 0
  /\ cacheState = "none" /\ cacheMtime = 0 /\ cacheContent = NoContent
  /\ clock = 0 /\ touched = FALSE
  /\ nRows = 0 /\ nErr = 0 /\ okDays = {} /\ dupDay = FALSE /\ badSeen = FALSE

\* ---------------------------------------------------------------- actions
\* a freshness test that accepts equal time stamps
find_cache_file_NonStrict(cState, cMtime, sMtime) ==
  cState # "none" /\ cMtime >= sMtime

\* _find_cache_file: the artifact exists and is strictly newer
find_cache_file(cState, cMtime, sMtime) == cState # "none" /\ cMtime > sMtime

\* a new provider object: everything but the station attributes and the store
FreshRest ==
  /\ has_sunshine' = FALSE /\ header' = <<>> /\ remaining' = 0
  /\ row' = <<>> /\ calls' = NoCalls /\ res' = "none"
  /\ warnings' = 0 /\ writes' = 0 /\ lastDump' = "none"
  /\ nRows' = 0 /\ nErr' = 0 /\ okDays' = {}
  /\ dupDay' = FALSE /\ badSeen' = FALSE

Fresh == FreshRest /\ meta' = FALSE /\ store' = EmptyStore

\* __init__, lines 80-89, when the source file is missing
ConstructNotFound ==
  /\ Quiescent /\ nConstr < MaxConstr /\ ~srcExists
  /\ Fresh
  /\ nConstr' = nConstr + 1
  /\ pc' = "aborted" /\ raised' = "PCSEError" /\ path' = "none"
  /\ UNCHANGED <<fsVars, clock>>

\* __init__ with _load_cache_file finding a cache file: _load restores or raises
ConstructFromCache ==
  /\ Quiescent /\ nConstr < MaxConstr /\ srcExists
  /\ find_cache_file(cacheState, cacheMtime, srcMtime)
  /\ nConstr' = nConstr + 1
  /\ path' = "cache"
  /\ \E out \in LoadOutcomes :
       IF cacheState = "good" /\ out = "ok"
       THEN /\ FreshRest
            /\ meta' = cacheContent.meta /\ store' = cacheContent.store
            /\ pc' = "done" /\ raised' = "none"
       ELSE /\ Fresh
            /\ pc' = "aborted" /\ raised' = "CacheLoadError"
  /\ UNCHANGED <<fsVars, clock>>

\* __init__ with _load_cache_file returning False: the file is opened
ConstructParse ==
  /\ Quiescent /\ nConstr < MaxConstr /\ srcExists
  /\ ~find_cache_file(cacheState, cacheMtime, srcMtime)
  /\ Fresh
  /\ nConstr' = nConstr + 1
  /\ pc' = "meta" /\ raised' = "none" /\ path' = "parse"
  /\ UNCHANGED <<fsVars, clock>>

\* _read_meta
ReadMeta ==
  /\ pc = "meta"
  /\ \E m \in MetaFiles :
       IF ReadMetaResult(m) = "ok"
       THEN /\ meta' = TRUE /\ has_sunshine' = m.HasSunshine
            /\ pc' = "header" /\ raised' = "none"
       ELSE /\ meta' = FALSE /\ has_sunshine' = FALSE
            /\ pc' = "aborted" /\ raised' = ReadMetaResult(m)
  /\ UNCHANGED <<path, rowVars, store, warnings, writes, lastDump, nConstr,
                 fsVars, clock>>

\* the first row of the reader, lines 130-135
ReadHeaderOf(hdrs) ==
  /\ pc = "header"
  /\ \E raw \in hdrs, n \in 0..MaxRows :
       /\ header' = TranslateHeader(raw)
       /\ remaining' = n
  /\ pc' = "rows"
  /\ UNCHANGED <<raised, path, meta, has_sunshine, row, calls, res, store,
                 warnings, writes, lastDump, nConstr, fsVars, clock, nRows, nErr,
                 okDays, dupDay, badSeen>>

\* one data row, lines 127-178
ReadRowOf(rows, aOuts, eOuts, wOuts) ==
  /\ pc = "rows" /\ remaining > 0
  /\ \E r \in rows :
     \E t \in TryOutcomes(header, r, has_sunshine, aOuts, eOuts, wOuts) :
     \E h \in {ExceptClause(t.exc)} :
     \E conv \in {ConvFail(header, r)} :
     \E day \in {IF conv \/ "DAY" \notin DictKeys(header, r)
                 THEN 0 ELSE DictOf(header, r)["DAY"].v} :
       LET c == [ang |-> t.ang, et |-> t.et, wdc |-> t.wdc]
           err == conv \/ DerivedFail(c)
       IN /\ row' = r
          /\ calls' = c
          /\ res' = h.res
          /\ store' = IF h.res = "stored"
                      THEN StoreWDC(store, t.d, t.d["DAY"].v) ELSE store
          /\ warnings' = warnings + h.warn
          /\ raised' = h.raised
          /\ pc' = IF h.res = "raised" THEN "aborted" ELSE "rows"
          /\ nRows' = nRows + 1
          /\ nErr' = IF err THEN nErr + 1 ELSE nErr
          /\ okDays' = IF err \/ day = 0 THEN okDays ELSE okDays \cup {day}
          /\ dupDay' = (dupDay \/ (~err /\ day \in okDays))
          /\ badSeen' = (badSeen \/ conv)
  /\ remaining' = remaining - 1
  /\ UNCHANGED <<path, meta, has_sunshine, header, writes, lastDump, nConstr,
                 fsVars, clock>>

\* WeatherDataProvider._dump on the cache file name: the snapshot is written;
\* or the file cannot be opened; or it is opened, which truncates it, and the
\* write does not complete
DumpEffect(out) ==
  CASE out = "ok" ->
         /\ cacheState' = "good" /\ cacheMtime' = clock
         /\ cacheContent' = [store |-> store, meta |-> meta, pending |-> remaining]
         /\ touched' = FALSE
    [] out = "IOErrorPartial" ->
         /\ cacheState' = "corrupt" /\ cacheMtime' = clock
         /\ cacheContent' = NoContent
         /\ touched' = FALSE
    [] out = "IOError" ->
         UNCHANGED <<cacheState, cacheMtime, cacheContent, touched>>

\* _write_cache_file without its try: a failing _dump leaves __init__
WriteCache_NoCatch ==
  /\ pc = "rows" /\ remaining = 0
  /\ \E out \in DumpOutcomes :
       /\ DumpEffect(out)
       /\ lastDump' = out
       /\ pc' = IF out = "ok" THEN "done" ELSE "aborted"
       /\ raised' = IF out = "ok" THEN "none" ELSE "IOError"
  /\ writes' = writes + 1
  /\ UNCHANGED <<path, meta, has_sunshine, rowVars, store, warnings, nConstr,
                 srcExists, srcMtime, clock>>

\* _write_cache_file called inside the row loop instead of after it
WriteCache_InLoop ==
  /\ pc = "rows"
  /\ \E out \in DumpOutcomes :
       /\ DumpEffect(out)
       /\ lastDump' = out
       /\ warnings' = IF out = "ok" THEN warnings ELSE warnings + 1
  /\ writes' = writes + 1
  /\ pc' = IF remaining = 0 THEN "done" ELSE "rows"
  /\ raised' = "none"
  /\ UNCHANGED <<path, meta, has_sunshine, rowVars, store, nConstr, srcExists,
                 srcMtime, clock>>

\* the reader is exhausted: _write_cache_file, lines 214-221; IOError and
\* EnvironmentError of _dump end in a logger warning
WriteCache ==
  /\ pc = "rows" /\ remaining = 0
  /\ \E out \in DumpOutcomes :
       /\ DumpEffect(out)
       /\ lastDump' = out
       /\ warnings' = IF out = "ok" THEN warnings ELSE warnings + 1
  /\ writes' = writes + 1
  /\ pc' = "done" /\ raised' = "none"
  /\ UNCHANGED <<path, meta, has_sunshine, rowVars, store, nConstr, srcExists,
                 srcMtime, clock>>

\* the source file is created or rewritten
Touch ==
  /\ Quiescent
  /\ srcExists' = TRUE /\ srcMtime' = clock /\ touched' = TRUE
  /\ UNCHANGED <<pc, raised, path, meta, has_sunshine, rowVars, store, warnings,
                 writes, lastDump, nConstr, cacheState, cacheMtime, cacheContent,
                 clock>>

\* time passes; the clock is read only by Touch and by the cache write, so
\* time that passes during a construction is time that passed before it
Tick ==
  /\ Quiescent /\ clock < MaxClock
  /\ clock' = clock + 1
  /\ UNCHANGED <<pc, raised, path, meta, has_sunshine, rowVars, store, warnings,
                 writes, lastDump, nConstr, fsVars>>

\* the cache life cycle on a few rows
ReadHeader == ReadHeaderOf({FullHeader})
ReadRow == ReadRowOf(FewRows, {"ok"}, FewOutcomes, {"ok"})

Next ==
  \/ ConstructNotFound
  \/ ConstructFromCache
  \/ ConstructParse
  \/ ReadMeta
  \/ ReadHeader
  \/ ReadRow
  \/ WriteCache
  \/ Touch
  \/ Tick

Spec == Init /\ [][Next]_vars

\* one construction on a cold cache, over every header and row of the inputs
ColdConstructNotFound == nConstr = 0 /\ ConstructNotFound
ColdConstructParse == nConstr = 0 /\ ConstructParse
ReadAnyHeader == ReadHeaderOf(RawHeaders)
ReadAnyRow == ReadRowOf(RowSet, ExtOutcomes, ExtOutcomes, WdcOutcomes)

NextRows ==
  \/ ColdConstructNotFound
  \/ ColdConstructParse
  \/ ReadMeta
  \/ ReadAnyHeader
  \/ ReadAnyRow
  \/ WriteCache

SpecRows == Init /\ [][NextRows]_vars

\* ------------------------------------------------------------ properties
\* the row just processed, read from its cells
RowKeys == DictKeys(header, row)
RowCell(key) == DictOf(header, row)[key]

\* every required field is there and is a number
ValidRow(hdr, r) ==
  /\ Required \subseteq DictKeys(hdr, r)
  /\ ~ConvFail(hdr, r)
  /\ \A key \in Required \ {"DAY"} : DictOf(hdr, r)[key].k = "num"

\* every external call made for the row returned
CallsOk(c) == c.ang \in {"none", "ok"} /\ c.et = "ok" /\ c.wdc = "ok"

\* the store holds the row under its date, each field but IRRAD converted
StoredRow(st, hdr, r) ==
  LET d == DictOf(hdr, r)
      day == d["DAY"].v
  IN /\ day \in DOMAIN st
     /\ \A key \in DictKeys(hdr, r) \ {"IRRAD"} :
          st[day][key] = obs_conversions(key, d[key])

\* C1: a data row with a cell that does not parse (date or number) is not
\* stored, raises nothing and is warned about, the loop goes on, and a valid
\* row that comes after such a row is stored when the external calls return.
C1_Step ==
  nRows' = nRows + 1 =>
    /\ ConvFail(header', row') =>
         /\ store' = store /\ res' = "skipped" /\ raised' = "none"
         /\ pc' = "rows" /\ warnings' = warnings + 1
    /\ (badSeen /\ ValidRow(header', row') /\ CallsOk(calls')) =>
         /\ res' = "stored" /\ pc' = "rows" /\ StoredRow(store', header', row')

C1_BadRowSkipped == [][C1_Step]_vars

C1_Witness ==
  /\ badSeen /\ nRows = 2 /\ res = "stored"
  /\ ValidRow(header, row) /\ StoredRow(store, header, row)
  /\ warnings = 1

C3_SunshineHoursCorrected ==
  (nRows > 0 /\ res = "stored" /\ "IRRAD" \in RowKeys /\ RowCell("IRRAD").k = "num") =>
    LET f == RowCell("IRRAD").v
        stored == store[RowCell("DAY").v]["IRRAD"]
    IN IF has_sunshine /\ 0 < f /\ f < 24000
       THEN stored.k = "angstrom" /\ calls.ang = "ok"
       ELSE stored = [k |-> "num", v |-> f * 1000] /\ calls.ang = "none"

C5_Step ==
  (nConstr' = nConstr + 1 /\ srcExists) =>
    /\ path' = "cache" <=> (cacheState # "none" /\ cacheMtime > srcMtime)
    /\ path' = "cache" =>
         /\ pc' \in {"done", "aborted"}
         /\ pc' = "done" => (store' = cacheContent.store /\ meta' = cacheContent.meta)
    /\ path' # "cache" => (path' = "parse" /\ pc' = "meta")
    /\ touched => path' = "parse"

C6_LoadFailureIsMiss == ~(pc = "aborted" /\ raised = "CacheLoadError")

\* C7: a row with a not-a-number in a field other than SNOWDEPTH is skipped
\* with a warning and the loop goes on; a row whose only not-a-number is
\* SNOWDEPTH is stored.
C7_NaNRowSkipped ==
  (nRows > 0 /\ ~ConvFail(header, row)) =>
    /\ (\E key \in RowKeys \ {"SNOWDEPTH", "DAY"} : RowCell(key).k = "nan") =>
         (res = "skipped" /\ pc # "aborted" /\ warnings > 0)
    /\ (ValidRow(header, row) /\ "SNOWDEPTH" \in RowKeys
        /\ RowCell("SNOWDEPTH").k = "nan" /\ CallsOk(calls)) => res = "stored"

\* C8: a row for which angstrom or reference_ET raises, whatever the
\* exception, is skipped with a warning and the construction goes on.
C8_ExternalErrorSkipsRow ==
  (nRows > 0 /\ (calls.ang \notin {"none", "ok"} \/ calls.et \notin {"none", "ok"})) =>
    (res = "skipped" /\ pc # "aborted" /\ warnings > 0)

\* C9: when _dump fails in _write_cache_file the construction ends without
\* an exception, with one more warning, the station attributes set and the
\* store it built unchanged.
C9_Step ==
  (writes' = writes + 1 /\ lastDump' \in {"IOError", "IOErrorPartial"}) =>
    /\ pc' = "done" /\ raised' = "none"
    /\ warnings' = warnings + 1
    /\ meta' /\ store' = store /\ DOMAIN store' = okDays'

C9_WriteFailureKeepsProvider == [][C9_Step]_vars

C9_Witness ==
  /\ pc = "done" /\ lastDump = "IOError" /\ raised = "none"
  /\ Cardinality(DOMAIN store) = 2 /\ cacheState = "none"

\* C10: a construction calls _write_cache_file at most once, only when it
\* parsed, after the metadata and after the last data row; a construction
\* that raised wrote nothing; a loadable artifact is the snapshot of a
\* construction that had read every row.
C10_State ==
  /\ writes <= 1
  /\ pc = "aborted" => writes = 0
  /\ path # "parse" => writes = 0
  /\ cacheState = "good" => (cacheContent.pending = 0 /\ cacheContent.meta)

C10_Step ==
  (writes' = writes + 1
   \/ <<cacheState, cacheMtime, cacheContent>>' # <<cacheState, cacheMtime, cacheContent>>) =>
    /\ pc = "rows" /\ remaining = 0 /\ path = "parse" /\ meta
    /\ pc' = "done" /\ writes = 0

C10_CacheWrittenOnceAtEnd == []C10_State /\ [][C10_Step]_vars

C10_Witness ==
  /\ pc = "aborted" /\ res = "raised" /\ nRows = 2
  /\ Cardinality(DOMAIN store) = 1 /\ cacheState = "none" /\ writes = 0
====
